---- MODULE Spec2Model ----
(***************************************************************************)
(* Browser-side controller of the hotdog classifier.                       *)
(*                                                                         *)
(* The repository holds four revisions of the same script.  The variable   *)
(* rev selects the revision a page runs; it is fixed when the page is      *)
(* opened:                                                                 *)
(*   "main"  src/static/js/main.js   stats re-derived from the history     *)
(*   "p000"  src/unnamed/part_000    as main, accepts data:image input     *)
(*   "p002"  src/unnamed/part_002    stats incremented and persisted,      *)
(*                                   URLs pre-loaded and converted         *)
(*   "p003"  src/unnamed/part_003    file upload only, no history          *)
(*                                                                         *)
(* Strings the code inspects (startsWith, includes, split, the src getter) *)
(* are tuples of one-character strings; labels are tuples of words;        *)
(* strings that are only displayed or compared are TLA+ strings.  One      *)
(* action is one run of an event handler up to its next await: the event   *)
(* loop runs a handler to completion before it starts the next.            *)
(***************************************************************************)
EXTENDS Integers, Sequences, FiniteSets, TLC

VARIABLES
    rev,        \* revision of the script the page runs
    history,    \* let history: list of entries, most recent first
    stats,      \* let stats = {total, hotdogs}
    storage,    \* localStorage: the keys written so far and their values
    quota,      \* entries the origin's storage can hold (environment)
    dom,        \* the elements the script reads and writes
    previewLoad,\* TRUE while previewImage loads (onload or onerror will be called)
    reads,      \* FileReader reads in progress
    urlJobs,    \* part_002 handleUrl calls suspended before classifyImage
    requests,   \* POSTs to /classify awaiting their response
    timers,     \* armed setTimeout callbacks of showError
    clock,      \* wall clock read by new Date()
    posts,      \* number of POSTs issued since the page was opened
    budget      \* user actions still allowed

vars == <<rev, history, stats, storage, quota, dom, previewLoad, reads,
          urlJobs, requests, timers, clock, posts, budget>>

----
\* Bounds of the model

MaxActions == 2
MaxTimers == 2
QuotaNone == 0
QuotaSmall == 1
QuotaLarge == 100

\* Program constants

HistoryCap == 50

Revisions == {"main", "p000", "p002", "p003"}

\* The revisions that keep a history
Keeping == {"main", "p000", "p002"}

----
\* Values

Undefined == [t |-> "undefined"]
JStr(s) == [t |-> "str", v |-> s]
JNum(n) == [t |-> "num", v |-> n]

\* JavaScript truthiness of a JSON value
Truthy(j) ==
    CASE j.t = "undefined" -> FALSE
      [] j.t = "null" -> FALSE
      [] j.t = "str" -> j.v # ""
      [] j.t = "num" -> j.v # 0

\* obj.f for a parsed JSON object: undefined when the key is missing
Field(obj, f) == IF f \in DOMAIN obj THEN obj[f] ELSE Undefined

\* JSON.stringify(value, null, 2) of a scalar, as text pieces
JSONstringify(j) ==
    CASE j.t = "str" -> <<"\"", j.v, "\"">>
      [] j.t = "num" -> <<ToString(j.v)>>
      [] j.t = "null" -> <<"null">>

Http == <<"h","t","t","p",":","/","/">>
Https == <<"h","t","t","p","s",":","/","/">>
DataImage == <<"d","a","t","a",":","i","m","a","g","e">>
ImageSlash == <<"i","m","a","g","e","/">>
Base64Mark == <<";","b","a","s","e","6","4",",">>

\* startsWith that compares one character fewer than the prefix has
startsWithShort(s, p) ==
    /\ Len(s) >= Len(p) - 1
    /\ SubSeq(s, 1, Len(p) - 1) = SubSeq(p, 1, Len(p) - 1)

\* String.prototype.startsWith
startsWith(s, p) == Len(s) >= Len(p) /\ SubSeq(s, 1, Len(p)) = p

\* String.prototype.endsWith
endsWith(s, p) ==
    Len(s) >= Len(p) /\ SubSeq(s, Len(s) - Len(p) + 1, Len(s)) = p

\* String.prototype.includes
includes(s, p) ==
    \E i \in 1..(Len(s) - Len(p) + 1) : SubSeq(s, i, i + Len(p) - 1) = p

\* s.split(c)[0]
splitFirst(s, c) ==
    LET at == {i \in DOMAIN s : s[i] = c}
    IN IF at = {} THEN s
       ELSE SubSeq(s, 1, (CHOOSE i \in at : \A j \in at : i <= j) - 1)

\* Inputs the user can type into #url-input (already trimmed, non-empty)
UrlPath == Http \o <<"h","/","a",".","p","n","g","?","q">>
UrlBare == Https \o <<"h">>
UrlData == DataImage \o <<"/","p">> \o Base64Mark \o <<"A">>
UrlFtp == <<"f","t","p",":","/","/","h">>
UrlUpper == <<"H","T","T","P",":","/","/","h">>
UrlOneSlash == <<"h","t","t","p",":","/","h">>
UrlDataText == <<"d","a","t","a",":","t","e","x","t">>
UrlInputs ==
    {UrlPath, UrlBare, UrlData, UrlFtp, UrlUpper, UrlOneSlash, UrlDataText}

\* White space as String.prototype.trim sees it
WhiteSpace == {" ", "\t", "\n"}

\* trim without effect
trimNone(s) == s

\* String.prototype.trim: s without its leading and trailing white space
trim(s) ==
    LET kept == {i \in DOMAIN s : s[i] \notin WhiteSpace}
        first == CHOOSE i \in kept : \A j \in kept : i <= j
        last == CHOOSE i \in kept : \A j \in kept : j <= i
    IN IF kept = {} THEN <<>> ELSE SubSeq(s, first, last)

\* What #url-input can hold when the form is submitted: nothing, white
\* space only, a URL, a URL with white space around it
UrlBlank == { <<>>, <<" ">>, <<" ", "\t">> }
UrlPadded == { <<" ">> \o UrlPath \o <<"\n">>, <<"\t">> \o UrlFtp }
UrlTexts == UrlBlank \cup UrlInputs \cup UrlPadded

\* Files the user can pick or drop
FilePng == [type |-> ImageSlash \o <<"p">>, content |-> <<"B">>]
FileTxt == [type |-> <<"t","e","x","t","/","p">>, content |-> <<"C">>]
FileNoType == [type |-> <<>>, content |-> <<"D">>]
FileNoSlash == [type |-> <<"i","m","a","g","e">>, content |-> <<"E">>]
Files == {FilePng, FileTxt, FileNoType, FileNoSlash}

\* FileReader.readAsDataURL result
DataUrl(file) ==
    <<"d","a","t","a",":">> \o file.type \o Base64Mark \o file.content

\* Labels the endpoint returns, as words
LabelHotdog == <<"Hotdog">>
LabelNot == <<"Not", "Hotdog">>
LabelOther == <<"Pizza">>

\* data.result.includes('Hotdog')
includesHotdog(label) == \E i \in DOMAIN label : label[i] = "Hotdog"

\* Bodies of 2xx responses: {result, isRealHotdog, description?}
OkBodies ==
    { [result |-> LabelHotdog, isRealHotdog |-> TRUE,
       description |-> "a sausage in a bun"],
      [result |-> LabelNot, isRealHotdog |-> FALSE],
      [result |-> LabelOther, isRealHotdog |-> FALSE] }

\* Bodies of non-2xx responses: {error, details?}
ErrBodies ==
    { [error |-> JStr("model unavailable")],
      [error |-> JStr("model unavailable"), details |-> JStr("gpu")],
      [error |-> JStr("model unavailable"), details |-> JNum(0)],
      [error |-> JStr("")] }

\* What can come back for a POST
Outcomes ==
    [kind : {"ok"}, body : OkBodies]
    \cup [kind : {"http_error"}, body : ErrBodies]
    \cup [kind : {"network_error", "bad_body"}]

----
\* The page as served (src/templates/index.html): every section hidden
InitialDom ==
    [ resultHidden |-> TRUE,
      loadingHidden |-> TRUE,
      errorHidden |-> TRUE,
      urlDisplayHidden |-> TRUE,
      previewHidden |-> TRUE,
      explanationHidden |-> TRUE,
      resultText |-> <<>>,
      dataResult |-> "",
      resultColor |-> "",
      errorText |-> <<>>,
      explanationText |-> "",
      urlDisplayText |-> <<>>,
      previewSrc |-> <<>> ]

----
\* State management

NoStats == [total |-> 0, hotdogs |-> 0]

\* function calculateStats(): history.length and
\* history.filter(item => item.isRealHotdog).length
calculateStats(h) ==
    [total |-> Len(h),
     hotdogs |-> Cardinality({i \in DOMAIN h : h[i].isRealHotdog})]

\* The increment with total++ only on the branch that skips hotdogs++
incrementStatsSlip(st, label) ==
    IF includesHotdog(label)
    THEN [total |-> st.total, hotdogs |-> st.hotdogs + 1]
    ELSE [total |-> st.total + 1, hotdogs |-> st.hotdogs]

\* stats.total++; if (data.result.includes('Hotdog')) stats.hotdogs++;
incrementStats(st, label) ==
    [total |-> st.total + 1,
     hotdogs |-> IF includesHotdog(label) THEN st.hotdogs + 1 ELSE st.hotdogs]

\* const item = {...} of addToHistory
Item(r, imageUrl, data, now) ==
    CASE r = "main" ->
           [imageUrl |-> imageUrl, result |-> data.result,
            isRealHotdog |-> data.isRealHotdog, timestamp |-> now]
      [] r = "p000" ->
           [imageUrl |-> imageUrl, result |-> data.result,
            isRealHotdog |-> data.isRealHotdog,
            description |-> IF "description" \in DOMAIN data
                            THEN data.description ELSE "",
            timestamp |-> now]
      [] OTHER ->
           [imageUrl |-> imageUrl, result |-> data.result, timestamp |-> now]

\* unshift and pop with the test written `>= 50`
unshiftPopEarly(h, item) ==
    LET u == <<item>> \o h
    IN IF Len(u) >= HistoryCap THEN SubSeq(u, 1, Len(u) - 1) ELSE u

\* history.unshift(item); if (history.length > 50) history.pop();
unshiftPop(h, item) ==
    LET u == <<item>> \o h
    IN IF Len(u) > HistoryCap THEN SubSeq(u, 1, Len(u) - 1) ELSE u

\* localStorage.setItem throws QuotaExceededError when the list does not fit
Fits(h) == Len(h) <= quota

\* localStorage is a map from keys to values; a key never written is absent
EmptyStorage == [k \in {} |-> <<>>]

\* localStorage.setItem(key, JSON.stringify(value)), when it does not throw
\* (entries hold only strings and booleans, which JSON keeps as they are)
setItem(store, key, value) ==
    [k \in DOMAIN store \cup {key} |-> IF k = key THEN value ELSE store[k]]

\* JSON.parse(localStorage.getItem('hotdogHistory')) || []
loadHistory(store) ==
    IF "hotdogHistory" \in DOMAIN store THEN store.hotdogHistory ELSE <<>>

\* JSON.parse(localStorage.getItem('hotdogStats')) || {total: 0, hotdogs: 0}
loadStats(store) ==
    IF "hotdogStats" \in DOMAIN store THEN store.hotdogStats ELSE NoStats

\* A list a previous session left in storage: n entries, newest first,
\* the even ones positive
OldEntry(r, i) ==
    Item(r, Http \o <<"o">>,
         [result |-> IF i % 2 = 0 THEN LabelHotdog ELSE LabelNot,
          isRealHotdog |-> (i % 2 = 0)],
         0 - i)
OldHistory(r, n) == [i \in 1..n |-> OldEntry(r, i)]

\* Storage after a previous session that recorded n + 3 verdicts
OldStorage(r, n) ==
    LET withList == setItem(EmptyStorage, "hotdogHistory", OldHistory(r, n))
    IN IF r = "p002"
       THEN setItem(withList, "hotdogStats",
                    [total |-> n + 3, hotdogs |-> n + 3])
       ELSE withList

\* What a page finds in storage: nothing, or what a previous session wrote
StoredAtStartup(r) ==
    IF r = "p003" THEN {EmptyStorage}
    ELSE {EmptyStorage, OldStorage(r, HistoryCap)}

\* A stored list longer than the script itself ever writes
OverCap == HistoryCap + 2
StoredOversized(r) == {OldStorage(r, OverCap)}

----
\* Display helpers

ErrStr(s) == [type |-> "string", value |-> s]
ErrObj(o) == [type |-> "object", value |-> o]
ErrException == [type |-> "exception"]

\* The banner text without the details branch
errorMessageNoDetails(error) ==
    IF error.type = "string" THEN <<error.value>>
    ELSE IF error.type = "object" /\ Truthy(Field(error.value, "error"))
    THEN <<error.value.error.v>>
    ELSE <<"An unexpected error occurred">>

\* function showError(error): the banner text
errorMessage(error) ==
    IF error.type = "string" THEN <<error.value>>
    ELSE IF error.type = "object" /\ Truthy(Field(error.value, "error"))
    THEN <<error.value.error.v>>
         \o (IF Truthy(Field(error.value, "details"))
             THEN <<"\nDetails: ">> \o JSONstringify(error.value.details)
             ELSE <<>>)
    ELSE <<"An unexpected error occurred">>

\* showError without the call of setTimeout
armTimerNever == UNCHANGED timers

\* function showError(error): setTimeout(..., delay); the delay is the same
\* for every call, so the armed callbacks fire in the order they were armed
armTimer == timers < MaxTimers /\ timers' = timers + 1

\* function showError(error): the DOM part; the caller arms the timer
showError(d, error) ==
    [d EXCEPT !.errorText = errorMessage(error), !.errorHidden = FALSE]

\* function resetDisplay()
resetDisplay(d) ==
    [d EXCEPT !.resultHidden = TRUE, !.loadingHidden = TRUE,
              !.errorHidden = TRUE, !.urlDisplayHidden = TRUE]

\* function updatePreview(src): the DOM part; the image then loads.
\* part_002 shows the section only in the onload handler
updatePreview(r, d, src) ==
    IF r = "p002" THEN [d EXCEPT !.previewSrc = src]
    ELSE [d EXCEPT !.previewSrc = src, !.previewHidden = FALSE]

\* The src getter of an <img>: the URL as the browser serialises it
resolvedSrc(src) ==
    LET scheme == IF startsWith(src, Https) THEN Https
                  ELSE IF startsWith(src, Http) THEN Http ELSE <<>>
        rest == SubSeq(src, Len(scheme) + 1, Len(src))
    IN IF scheme # <<>> /\ \A i \in DOMAIN rest : rest[i] # "/"
       THEN src \o <<"/">> ELSE src

\* null where the code tests a URL for falsiness (the empty string is falsy too)
NoUrl == <<>>

\* formatImageUrl without the scheme test
formatImageUrlAny(url) == url

\* function formatImageUrl(url) of main.js: the value returned
formatImageUrl(url) ==
    IF ~startsWith(url, Http) /\ ~startsWith(url, Https) THEN NoUrl ELSE url

\* function formatImageUrl(url) of main.js: the effect on #url-display
formatImageUrlDisplay(d, url) ==
    IF formatImageUrl(url) = NoUrl THEN d
    ELSE [d EXCEPT !.urlDisplayText = <<"Processing: ">> \o url,
                   !.urlDisplayHidden = FALSE]

\* The letters of the extensions, for the /i flag of the extension test
lowerCase(c) ==
    CASE c = "J" -> "j" [] c = "P" -> "p" [] c = "G" -> "g" [] c = "E" -> "e"
      [] c = "N" -> "n" [] c = "I" -> "i" [] c = "F" -> "f" [] c = "W" -> "w"
      [] c = "B" -> "b" [] OTHER -> c

ImageExts ==
    { <<".","j","p","g">>, <<".","j","p","e","g">>, <<".","p","n","g">>,
      <<".","g","i","f">>, <<".","w","e","b","p">> }

\* /\.(jpg|jpeg|png|gif|webp)$/i.test(s)
hasImageExt(s) ==
    \E e \in ImageExts : endsWith([i \in DOMAIN s |-> lowerCase(s[i])], e)

BingPath == <<"b","i","n","g",".","c","o","m","/","t","h","/","i","d","/">>

\* function formatImageUrl(url) of part_002: the value returned
formatImageUrlP002(url) ==
    LET cleanUrl == splitFirst(splitFirst(url, "?"), "#")
        noSlash == IF endsWith(cleanUrl, <<"/">>)
                   THEN SubSeq(cleanUrl, 1, Len(cleanUrl) - 1) ELSE cleanUrl
    IN IF ~startsWith(url, Http) /\ ~startsWith(url, Https) THEN NoUrl
       ELSE IF includes(url, BingPath) THEN url
       ELSE IF hasImageExt(cleanUrl) THEN cleanUrl
       ELSE noSlash \o <<".","j","p","g">>

\* function formatImageUrl(url) of part_002: the effect on #url-display
formatImageUrlDisplayP002(d, url) ==
    LET cleanUrl == splitFirst(splitFirst(url, "?"), "#")
    IN IF formatImageUrlP002(url) = NoUrl THEN d
       ELSE IF includes(url, BingPath) \/ hasImageExt(cleanUrl)
       THEN [d EXCEPT !.urlDisplayText = <<"Processing: ">> \o url,
                      !.urlDisplayHidden = FALSE]
       ELSE [d EXCEPT !.urlDisplayText =
                          <<"Trying modified URL: ">> \o formatImageUrlP002(url),
                      !.urlDisplayHidden = FALSE]

\* classifyImage up to `await fetch` without hiding the result section
classifyImageStartKeep(d) == [d EXCEPT !.loadingHidden = FALSE]

\* classifyImage up to `await fetch`
classifyImageStart(d) ==
    [d EXCEPT !.loadingHidden = FALSE, !.resultHidden = TRUE]

\* FormData.append
append(form, name, value) == Append(form, <<name, value>>)

\* fetch('/classify', {method: 'POST', body: formData}): the request in flight
Post(form, imageUrl) == [id |-> posts + 1, body |-> form, imageUrl |-> imageUrl]

----
\* Opening the page: the DOMContentLoaded handler

\* let history = JSON.parse(...) || []
bootHistory(r, stored) == IF r = "p003" THEN <<>> ELSE loadHistory(stored)

\* The startup without the call of calculateStats()
bootStatsStale(r, stored) ==
    IF r = "p002" THEN loadStats(stored) ELSE NoStats

\* let stats = ...; calculateStats() (main.js, part_000) or the stored
\* stats (part_002)
bootStats(r, stored) ==
    CASE r \in {"main", "p000"} -> calculateStats(loadHistory(stored))
      [] r = "p002" -> loadStats(stored)
      [] OTHER -> NoStats

\* updateStats() of part_002 writes the stats back at startup
bootStorage(r, stored) ==
    IF r = "p002" THEN setItem(stored, "hotdogStats", loadStats(stored))
    ELSE stored

Opened(oversized) ==
    /\ rev \in IF oversized THEN Keeping ELSE Revisions
    /\ quota \in {QuotaNone, QuotaSmall, QuotaLarge}
    /\ \E stored \in IF oversized THEN StoredOversized(rev)
                     ELSE StoredAtStartup(rev) :
          /\ Len(loadHistory(stored)) <= quota
          /\ storage = bootStorage(rev, stored)
          /\ history = bootHistory(rev, stored)
          /\ stats = bootStats(rev, stored)
    /\ dom = InitialDom
    /\ previewLoad = FALSE
    /\ reads = {}
    /\ urlJobs = {}
    /\ requests = {}
    /\ timers = 0
    /\ clock = 1
    /\ posts = 0
    /\ budget = MaxActions

Init == Opened(FALSE)

InitOversized == Opened(TRUE)

\* The user reloads the page: pending callbacks die with the old document
reload ==
    /\ budget > 0
    /\ budget' = budget - 1
    /\ storage' = bootStorage(rev, storage)
    /\ history' = bootHistory(rev, storage)
    /\ stats' = bootStats(rev, storage)
    /\ dom' = InitialDom
    /\ previewLoad' = FALSE
    /\ reads' = {}
    /\ urlJobs' = {}
    /\ requests' = {}
    /\ timers' = 0
    /\ posts' = 0
    /\ UNCHANGED <<rev, quota, clock>>

----
\* File submission

\* function handleFile(file) (updateThumbnail(file) in part_003), called by
\* the change and drop listeners
handleFile(file) ==
    /\ budget > 0
    /\ budget' = budget - 1
    /\ IF ~startsWith(file.type, ImageSlash)
       THEN /\ dom' = showError(resetDisplay(dom),
                                ErrStr("Please upload an image file!"))
            /\ armTimer
            /\ UNCHANGED reads
       ELSE /\ dom' = IF rev = "p003"
                      THEN [resetDisplay(dom) EXCEPT !.previewHidden = FALSE]
                      ELSE resetDisplay(dom)
            /\ reads' = reads \cup {[id |-> budget, file |-> file]}
            /\ UNCHANGED timers
    /\ UNCHANGED <<rev, history, stats, storage, quota, previewLoad, urlJobs,
                   requests, clock, posts>>

\* reader.onload: updatePreview, build the form, classifyImage up to its
\* await (part_003: set the src, uploadAndClassify up to its fetch)
readerOnload(rd) ==
    /\ rd \in reads
    /\ reads' = reads \ {rd}
    /\ IF rev = "p003"
       THEN /\ dom' = [dom EXCEPT !.previewSrc = DataUrl(rd.file),
                                  !.loadingHidden = FALSE]
            /\ UNCHANGED previewLoad
       ELSE /\ dom' = classifyImageStart(
                          updatePreview(rev, dom, DataUrl(rd.file)))
            /\ previewLoad' = TRUE
    /\ requests' = requests \cup {Post(append(<<>>, "file", rd.file), NoUrl)}
    /\ posts' = posts + 1
    /\ UNCHANGED <<rev, history, stats, storage, quota, urlJobs, timers,
                   clock, budget>>

\* reader.onerror (part_003 sets no handler: the read ends unnoticed)
readerOnerror(rd) ==
    /\ rd \in reads
    /\ reads' = reads \ {rd}
    /\ IF rev = "p003"
       THEN UNCHANGED <<dom, timers>>
       ELSE /\ dom' = showError(dom, ErrStr("Error reading file"))
            /\ armTimer
    /\ UNCHANGED <<rev, history, stats, storage, quota, previewLoad, urlJobs,
                   requests, clock, posts, budget>>

----
\* URL submission (the submit listener passes the trimmed, non-empty input)

\* async function handleUrl(url) of main.js, up to the await in classifyImage
handleUrlMain(url) ==
    LET formattedUrl == formatImageUrl(url)
        d2 == formatImageUrlDisplay(resetDisplay(dom), url)
    IN IF formattedUrl = NoUrl
       THEN /\ dom' = showError(d2, ErrStr("Please enter a valid URL"))
            /\ armTimer
            /\ UNCHANGED <<previewLoad, requests, posts, urlJobs>>
       ELSE /\ dom' = classifyImageStart(updatePreview(rev, d2, formattedUrl))
            /\ previewLoad' = TRUE
            /\ requests' = requests \cup
                   {Post(append(<<>>, "url", formattedUrl), NoUrl)}
            /\ posts' = posts + 1
            /\ UNCHANGED <<timers, urlJobs>>

\* async function handleUrl(url) of part_000, up to the await in classifyImage
handleUrlP000(url) ==
    LET d1 == resetDisplay(dom)
    IN IF /\ ~startsWith(url, Http)
          /\ ~startsWith(url, Https)
          /\ ~startsWith(url, DataImage)
       THEN /\ dom' = showError(d1,
                         ErrStr("Please enter a valid URL or base64 image data"))
            /\ armTimer
            /\ UNCHANGED <<previewLoad, requests, posts, urlJobs>>
       ELSE /\ dom' = classifyImageStart(
                        updatePreview(rev, [d1 EXCEPT !.loadingHidden = FALSE],
                                      url))
            /\ previewLoad' = TRUE
            /\ requests' = requests \cup
                   {Post(IF startsWith(url, DataImage)
                         THEN append(<<>>, "base64", url)
                         ELSE append(<<>>, "url", url), url)}
            /\ posts' = posts + 1
            /\ UNCHANGED <<timers, urlJobs>>

\* async function handleUrl(url) of part_002, up to `await imgPromise`
handleUrlP002(url) ==
    LET formattedUrl == formatImageUrlP002(url)
        d2 == formatImageUrlDisplayP002(resetDisplay(dom), url)
    IN IF formattedUrl = NoUrl
       THEN /\ dom' = showError(d2, ErrStr("Please enter a valid URL"))
            /\ armTimer
            /\ UNCHANGED <<previewLoad, requests, posts, urlJobs>>
       ELSE /\ dom' = [d2 EXCEPT !.loadingHidden = FALSE]
            /\ urlJobs' = urlJobs \cup
                   {[id |-> budget, url |-> formattedUrl, stage |-> "testImg"]}
            /\ UNCHANGED <<previewLoad, requests, posts, timers>>

\* The submit listener of #url-form.  In part_003 the listener is outside the
\* closure that declares loadingSpinner: it throws before it changes anything
handleUrl(url) ==
    /\ budget > 0
    /\ budget' = budget - 1
    /\ CASE rev = "main" -> handleUrlMain(url)
         [] rev = "p000" -> handleUrlP000(url)
         [] rev = "p002" -> handleUrlP002(url)
         [] OTHER -> UNCHANGED <<dom, previewLoad, requests, posts, urlJobs,
                                 timers>>
    /\ UNCHANGED <<rev, history, stats, storage, quota, reads, clock>>

\* The submit listener of #url-form: the value is trimmed (part_003 takes it
\* as it is), an empty one returns at once, any other goes to handleUrl
urlFormSubmit(text) ==
    LET url == IF rev = "p003" THEN text ELSE trim(text)
    IN IF url = <<>>
       THEN /\ budget > 0
            /\ budget' = budget - 1
            /\ UNCHANGED <<rev, history, stats, storage, quota, dom,
                           previewLoad, reads, urlJobs, requests, timers,
                           clock, posts>>
       ELSE handleUrl(url)

\* testImg.onload of part_002: handleUrl goes on to fetch(formattedUrl)
testImgOnload(job) ==
    /\ job \in urlJobs
    /\ job.stage = "testImg"
    /\ urlJobs' = (urlJobs \ {job}) \cup {[job EXCEPT !.stage = "convert"]}
    /\ UNCHANGED <<rev, history, stats, storage, quota, dom, previewLoad,
                   reads, requests, timers, clock, posts, budget>>

\* testImg.onerror of part_002: the outer catch block of handleUrl
testImgOnerror(job) ==
    /\ job \in urlJobs
    /\ job.stage = "testImg"
    /\ urlJobs' = urlJobs \ {job}
    /\ dom' = [showError(dom, ErrStr("Unable to load image from URL"))
                 EXCEPT !.loadingHidden = TRUE]
    /\ armTimer
    /\ UNCHANGED <<rev, history, stats, storage, quota, previewLoad, reads,
                   requests, clock, posts, budget>>

\* What reader.result holds after the secondary fetch of part_002
FetchedDataUrl == DataImage \o <<"/","j">> \o Base64Mark \o <<"F">>

\* The same step with a form that always carries the url field
urlConvertedBoth(job, converted) ==
    /\ job \in urlJobs
    /\ job.stage = "convert"
    /\ urlJobs' = urlJobs \ {job}
    /\ dom' = classifyImageStart(updatePreview(rev, dom, job.url))
    /\ previewLoad' = TRUE
    /\ requests' = requests \cup
           {Post(IF converted
                 THEN append(append(<<>>, "base64", FetchedDataUrl),
                             "url", job.url)
                 ELSE append(<<>>, "url", job.url), NoUrl)}
    /\ posts' = posts + 1
    /\ UNCHANGED <<rev, history, stats, storage, quota, reads, timers, clock,
                   budget>>

\* part_002 handleUrl after the secondary fetch and the conversion settled:
\* base64 when they succeeded, url when they threw; then updatePreview and
\* classifyImage up to its await
urlConverted(job, converted) ==
    /\ job \in urlJobs
    /\ job.stage = "convert"
    /\ urlJobs' = urlJobs \ {job}
    /\ dom' = classifyImageStart(updatePreview(rev, dom, job.url))
    /\ previewLoad' = TRUE
    /\ requests' = requests \cup
           {Post(IF converted THEN append(<<>>, "base64", FetchedDataUrl)
                 ELSE append(<<>>, "url", job.url), NoUrl)}
    /\ posts' = posts + 1
    /\ UNCHANGED <<rev, history, stats, storage, quota, reads, timers, clock,
                   budget>>

----
\* The response to a POST: classifyImage from `await fetch` to its end

\* The key of the response body whose text goes to .result-explanation
explanationKey(r) == IF r = "main" THEN "explanation" ELSE "description"

\* The success path that keeps a verdict that is already on display
showResultFirst(r, d, data) ==
    IF ~d.resultHidden THEN [d EXCEPT !.loadingHidden = TRUE]
    ELSE [d EXCEPT !.loadingHidden = TRUE,
                   !.resultHidden = FALSE,
                   !.resultText = data.result,
                   !.dataResult = IF data.isRealHotdog THEN "hotdog"
                                  ELSE "not-hotdog"]

\* The success path that leaves the loading indicator on display
showResultBusy(r, d, data) ==
    [d EXCEPT !.resultHidden = FALSE,
              !.resultText = data.result,
              !.dataResult = IF data.isRealHotdog THEN "hotdog"
                             ELSE "not-hotdog"]

\* classifyImage of main.js and part_000 after a 2xx response, up to the
\* call of addToHistory
showResult(r, d, data) ==
    LET d1 == [d EXCEPT !.loadingHidden = TRUE,
                        !.resultHidden = FALSE,
                        !.resultText = data.result,
                        !.dataResult = IF data.isRealHotdog THEN "hotdog"
                                       ELSE "not-hotdog"]
    IN IF explanationKey(r) \in DOMAIN data /\ data[explanationKey(r)] # ""
       THEN [d1 EXCEPT !.explanationText = data[explanationKey(r)],
                       !.explanationHidden = FALSE]
       ELSE d1

\* classifyImage of part_002 and uploadAndClassify of part_003 after a 2xx
\* response: the verdict is coloured by the label
showResultByLabel(d, data) ==
    [d EXCEPT !.loadingHidden = TRUE,
              !.resultHidden = FALSE,
              !.resultText = data.result,
              !.resultColor = IF includesHotdog(data.result)
                              THEN "var(--success-color)"
                              ELSE "var(--error-color)"]

\* The first argument classifyImage passes to addToHistory
historyImageUrl(r, req, d) ==
    IF r = "p000" /\ req.imageUrl # NoUrl
    THEN req.imageUrl
    ELSE resolvedSrc(d.previewSrc)

\* A catch block that hides the loading indicator and reports nothing
classifyCatchQuiet(d, error) == [d EXCEPT !.loadingHidden = TRUE]

\* A catch block that reports the error and leaves the loading indicator
classifyCatchBusy(d, error) == showError(d, error)

\* The catch block of classifyImage
classifyCatch(d, error) ==
    showError([d EXCEPT !.loadingHidden = TRUE], error)

\* function addToHistory(imageUrl, result) of main.js and part_000; when
\* setItem throws, the statements after it do not run
addToHistory(imageUrl, data) ==
    LET h1 == unshiftPop(history, Item(rev, imageUrl, data, clock))
    IN /\ history' = h1
       /\ clock' = clock + 1
       /\ IF Fits(h1)
          THEN /\ storage' = setItem(storage, "hotdogHistory", h1)
               /\ stats' = calculateStats(h1)
          ELSE UNCHANGED <<storage, stats>>

\* The same statements with an updateStats() that does not write the stats
addToHistoryP002Unsaved(imageUrl, data) ==
    LET h1 == unshiftPop(history, Item(rev, imageUrl, data, clock))
    IN /\ history' = h1
       /\ clock' = clock + 1
       /\ stats' = incrementStats(stats, data.result)
       /\ storage' = IF Fits(h1) THEN setItem(storage, "hotdogHistory", h1)
                     ELSE storage

\* stats.total++; ...; updateStats(); addToHistory(previewImage.src,
\* data.result) of part_002: the stats are written before the history
addToHistoryP002(imageUrl, data) ==
    LET h1 == unshiftPop(history, Item(rev, imageUrl, data, clock))
        st1 == incrementStats(stats, data.result)
        stored1 == setItem(storage, "hotdogStats", st1)
    IN /\ history' = h1
       /\ clock' = clock + 1
       /\ stats' = st1
       /\ storage' = IF Fits(h1) THEN setItem(stored1, "hotdogHistory", h1)
                     ELSE stored1

\* Whether that call of addToHistory throws
addToHistoryThrows(imageUrl, data) ==
    ~Fits(unshiftPop(history, Item(rev, imageUrl, data, clock)))

\* classifyImage after a 2xx response: the rest of the try block, and the
\* catch block when addToHistory throws
classifySuccess(req, data) ==
    LET d1 == IF rev = "p002" THEN showResultByLabel(dom, data)
              ELSE showResult(rev, dom, data)
        imageUrl == historyImageUrl(rev, req, dom)
    IN /\ IF rev = "p002" THEN addToHistoryP002(imageUrl, data)
          ELSE addToHistory(imageUrl, data)
       /\ IF addToHistoryThrows(imageUrl, data)
          THEN /\ dom' = classifyCatch(d1, ErrException)
               /\ armTimer
          ELSE /\ dom' = d1
               /\ UNCHANGED timers

\* A catch block that is handed the text of the Error raised by fetch
thrownMessage(r, out) ==
    IF r \in {"main", "p000"} /\ out.kind = "http_error" THEN ErrObj(out.body)
    ELSE IF out.kind = "network_error" THEN ErrStr("Failed to fetch")
    ELSE ErrException

\* What classifyImage throws on a failure: the parsed body (main.js,
\* part_000), or an Error (a rejected fetch or json(); handleResponse of
\* part_002 wraps the server's message in an Error)
thrown(r, out) ==
    IF r \in {"main", "p000"} /\ out.kind = "http_error"
    THEN ErrObj(out.body) ELSE ErrException

\* classifyImage on a failure: the catch block
classifyFailure(out) ==
    /\ dom' = classifyCatch(dom, thrown(rev, out))
    /\ armTimer
    /\ UNCHANGED <<history, stats, storage, clock>>

\* error.message of what the promise chain of part_003 rejects with
errorMessageP003(out) ==
    CASE out.kind = "http_error" ->
           IF Truthy(Field(out.body, "error")) THEN out.body.error.v
           ELSE "Classification failed"
      [] out.kind = "network_error" -> "Failed to fetch"
      [] OTHER -> "Unexpected token in JSON"

\* function uploadAndClassify(file) of part_003: the then and catch callbacks
uploadAndClassify(out) ==
    /\ IF out.kind = "ok"
       THEN /\ dom' = showResultByLabel(dom, out.body)
            /\ UNCHANGED timers
       ELSE /\ dom' = classifyCatch(dom, ErrStr(errorMessageP003(out)))
            /\ armTimer
    /\ UNCHANGED <<history, stats, storage, clock>>

\* classifyImage that posts the form again when the fetch was rejected
classifyImageRetry(req, out) ==
    /\ req \in requests
    /\ IF out.kind = "network_error"
       THEN /\ requests' = (requests \ {req}) \cup {[req EXCEPT !.id = posts + 1]}
            /\ posts' = posts + 1
            /\ UNCHANGED <<dom, timers, history, stats, storage, clock>>
       ELSE /\ requests' = requests \ {req}
            /\ posts' = posts
            /\ IF rev = "p003" THEN uploadAndClassify(out)
               ELSE IF out.kind = "ok" THEN classifySuccess(req, out.body)
               ELSE classifyFailure(out)
    /\ UNCHANGED <<rev, quota, previewLoad, reads, urlJobs, budget>>

\* async function classifyImage(formData): the part after `await fetch`
classifyImage(req, out) ==
    /\ req \in requests
    /\ requests' = requests \ {req}
    /\ IF rev = "p003" THEN uploadAndClassify(out)
       ELSE IF out.kind = "ok" THEN classifySuccess(req, out.body)
       ELSE classifyFailure(out)
    /\ UNCHANGED <<rev, quota, previewLoad, reads, urlJobs, posts, budget>>

----
\* Preview image, error timer, reset button

\* previewImage.onload (part_002 shows the preview section here)
previewOnload ==
    /\ previewLoad
    /\ previewLoad' = FALSE
    /\ dom' = IF rev = "p002" THEN [dom EXCEPT !.previewHidden = FALSE]
              ELSE dom
    /\ UNCHANGED <<rev, history, stats, storage, quota, reads, urlJobs,
                   requests, timers, clock, posts, budget>>

\* previewImage.onerror that reports the failure and leaves the section shown
previewOnerrorKeep ==
    /\ previewLoad
    /\ previewLoad' = FALSE
    /\ dom' = showError(dom, ErrStr("Failed to load image preview"))
    /\ armTimer
    /\ UNCHANGED <<rev, history, stats, storage, quota, reads, urlJobs,
                   requests, clock, posts, budget>>

\* previewImage.onerror
previewOnerror ==
    /\ previewLoad
    /\ previewLoad' = FALSE
    /\ dom' = [showError(dom, ErrStr("Failed to load image preview"))
                 EXCEPT !.previewHidden = TRUE]
    /\ armTimer
    /\ UNCHANGED <<rev, history, stats, storage, quota, reads, urlJobs,
                   requests, clock, posts, budget>>

\* The setTimeout callback of showError
timerFire ==
    /\ timers > 0
    /\ timers' = timers - 1
    /\ dom' = [dom EXCEPT !.errorHidden = TRUE]
    /\ UNCHANGED <<rev, history, stats, storage, quota, previewLoad, reads,
                   urlJobs, requests, clock, posts, budget>>

\* resetStats without the write to localStorage
resetStatsMemoryOnly ==
    /\ history' = <<>>
    /\ stats' = calculateStats(<<>>)
    /\ UNCHANGED storage

\* function resetStats()
resetStats ==
    /\ history' = <<>>
    /\ IF Fits(<<>>)
       THEN /\ storage' = setItem(storage, "hotdogHistory", <<>>)
            /\ stats' = calculateStats(<<>>)
       ELSE UNCHANGED <<storage, stats>>

\* The click listener without the confirm(...) gate
resetClickUngated(confirmed) ==
    /\ rev \in {"main", "p000"}
    /\ budget > 0
    /\ budget' = budget - 1
    /\ resetStats
    /\ UNCHANGED <<rev, quota, dom, previewLoad, reads, urlJobs, requests,
                   timers, clock, posts>>

\* The click listener of #reset-stats (main.js, part_000): confirm(...) and
\* then resetStats()
resetClick(confirmed) ==
    /\ rev \in {"main", "p000"}
    /\ budget > 0
    /\ budget' = budget - 1
    /\ IF confirmed THEN resetStats ELSE UNCHANGED <<history, storage, stats>>
    /\ UNCHANGED <<rev, quota, dom, previewLoad, reads, urlJobs, requests,
                   timers, clock, posts>>

----
Next ==
    \/ \E file \in Files : handleFile(file)
    \/ \E rd \in reads : readerOnload(rd)
    \/ \E rd \in reads : readerOnerror(rd)
    \/ \E text \in UrlTexts : urlFormSubmit(text)
    \/ \E job \in urlJobs : testImgOnload(job)
    \/ \E job \in urlJobs : testImgOnerror(job)
    \/ \E job \in urlJobs, converted \in BOOLEAN : urlConverted(job, converted)
    \/ \E req \in requests, out \in Outcomes : classifyImage(req, out)
    \/ previewOnload
    \/ previewOnerror
    \/ timerFire
    \/ \E confirmed \in BOOLEAN : resetClick(confirmed)
    \/ reload

Spec == Init /\ [][Next]_vars

\* The event loop runs every timer callback that is due
SpecFair == Init /\ [][Next]_vars /\ WF_vars(timerFire)

\* The same pages opened on storage that holds more than HistoryCap entries
SpecOversized == InitOversized /\ [][Next]_vars

----
\* addToHistory called on its own, from an empty history

ExtraRecords == 2
FreeRecords == 2

\* The image of the n-th call: every call records a different one
RecordUrl(n) == Http \o <<"h", "/", ToString(n)>>

\* The verdicts of the n-th call: any body for the first FreeRecords calls,
\* then positive on the even calls and negative on the odd ones
RecordBodies(n) ==
    IF n <= FreeRecords THEN OkBodies
    ELSE {[result |-> IF n % 2 = 0 THEN LabelHotdog ELSE LabelNot,
           isRealHotdog |-> (n % 2 = 0)]}

\* A page opened on empty storage that can hold every list the script writes
InitRecord ==
    /\ rev \in Keeping
    /\ quota = QuotaLarge
    /\ storage = bootStorage(rev, EmptyStorage)
    /\ history = bootHistory(rev, EmptyStorage)
    /\ stats = bootStats(rev, EmptyStorage)
    /\ dom = InitialDom
    /\ previewLoad = FALSE
    /\ reads = {}
    /\ urlJobs = {}
    /\ requests = {}
    /\ timers = 0
    /\ clock = 1
    /\ posts = 0
    /\ budget = 0

\* One call of addToHistory; the clock ticks once a call, so clock - 1 is
\* the number of calls made
record(imageUrl, data) ==
    /\ clock <= HistoryCap + ExtraRecords
    /\ IF rev = "p002" THEN addToHistoryP002(imageUrl, data)
       ELSE addToHistory(imageUrl, data)
    /\ UNCHANGED <<rev, quota, dom, previewLoad, reads, urlJobs, requests,
                   timers, posts, budget>>

NextRecord == \E data \in RecordBodies(clock) : record(RecordUrl(clock), data)

SpecRecord == InitRecord /\ [][NextRecord]_vars

----
\* part_002 opened on empty storage of any size: verdicts are counted and
\* recorded, and the page is reloaded now and then

InitCount ==
    /\ rev = "p002"
    /\ quota \in {QuotaNone, QuotaSmall, QuotaLarge}
    /\ storage = bootStorage(rev, EmptyStorage)
    /\ history = bootHistory(rev, EmptyStorage)
    /\ stats = bootStats(rev, EmptyStorage)
    /\ dom = InitialDom
    /\ previewLoad = FALSE
    /\ reads = {}
    /\ urlJobs = {}
    /\ requests = {}
    /\ timers = 0
    /\ clock = 1
    /\ posts = 0
    /\ budget = MaxActions

NextCount ==
    \/ \E data \in RecordBodies(clock) : record(RecordUrl(clock), data)
    \/ reload

SpecCount == InitCount /\ [][NextCount]_vars

----
\* Properties

\* s begins with p, character by character
BeginsWith(s, p) == Len(p) <= Len(s) /\ \A i \in 1..Len(p) : s[i] = p[i]

\* The text inputs the validation is meant to accept
ValidText(u) ==
    BeginsWith(u, Http) \/ BeginsWith(u, Https) \/ BeginsWith(u, DataImage)

\* The request a step has issued
Issued == requests' \ requests

\* C1: for every file whose MIME type does not begin with "image/",
\* handleFile (updateThumbnail in part_003) shows the error banner, starts no
\* read of the file, issues no POST, and leaves history, stats and the
\* persisted history unchanged
C1_NonImageFileRejected ==
    [][\A file \in Files :
          (handleFile(file) /\ ~BeginsWith(file.type, ImageSlash)) =>
              /\ ~dom'.errorHidden
              /\ dom'.errorText = <<"Please upload an image file!">>
              /\ reads' = reads
              /\ requests' = requests
              /\ posts' = posts
              /\ history' = history
              /\ stats' = stats
              /\ storage' = storage]_vars

\* A non-image file was refused: the banner is up and nothing was started
C1_Witness ==
    /\ ~dom.errorHidden
    /\ dom.errorText = <<"Please upload an image file!">>
    /\ reads = {}
    /\ requests = {}
    /\ posts = 0
    /\ budget < MaxActions

\* C2: for every non-empty text input that does not begin with "http://",
\* "https://" or "data:image", handleUrl shows the error banner, issues no
\* POST, and leaves history, stats and the persisted history unchanged
C2_InvalidTextRejected ==
    [][\A url \in UrlInputs :
          (handleUrl(url) /\ rev \in Keeping /\ ~ValidText(url)) =>
              /\ ~dom'.errorHidden
              /\ dom'.errorText \in
                     {<<"Please enter a valid URL">>,
                      <<"Please enter a valid URL or base64 image data">>}
              /\ requests' = requests
              /\ posts' = posts
              /\ urlJobs' = urlJobs
              /\ history' = history
              /\ stats' = stats
              /\ storage' = storage]_vars

\* main.js refused a text input: the banner is up and nothing was posted
C2_Witness ==
    /\ rev = "main"
    /\ ~dom.errorHidden
    /\ dom.errorText = <<"Please enter a valid URL">>
    /\ dom.urlDisplayHidden
    /\ requests = {}
    /\ posts = 0

\* C3: every valid input is submitted in a form with exactly one field: a
\* file carries only `file`, a text input beginning with "http://" or
\* "https://" carries only `url`, and a text input beginning with
\* "data:image" passes validation and carries only `base64`
C3_OneFieldPerInput ==
    [][/\ \A rd \in reads :
             readerOnload(rd) =>
                 \E req \in Issued : req.body = <<<<"file", rd.file>>>>
       /\ \A url \in UrlInputs :
             (handleUrl(url) /\ rev \in {"main", "p000"}) =>
                 /\ (BeginsWith(url, Http) \/ BeginsWith(url, Https)) =>
                        \E req \in Issued : req.body = <<<<"url", url>>>>
                 /\ BeginsWith(url, DataImage) =>
                        \E req \in Issued : req.body = <<<<"base64", url>>>>
      ]_vars

\* C4: from an empty history, after n calls of addToHistory with distinct
\* entries the history holds exactly min(n, 50) entries, the most recently
\* recorded ones, most recent first; after 51 calls the first entry recorded
\* is the one dropped
C4_KeepsMostRecent ==
    LET n == clock - 1
        kept == IF n < HistoryCap THEN n ELSE HistoryCap
    IN /\ Len(history) = kept
       /\ \A i \in 1..kept :
             /\ history[i].imageUrl = RecordUrl(n + 1 - i)
             /\ history[i].timestamp = n + 1 - i
             /\ history[i].result \in
                    {data.result : data \in RecordBodies(n + 1 - i)}

\* 51 calls were made: 50 entries are kept, the oldest of them is the second
\* entry recorded
C4_Witness ==
    /\ clock = HistoryCap + 2
    /\ Len(history) = HistoryCap
    /\ history[1].imageUrl = RecordUrl(HistoryCap + 1)
    /\ history[HistoryCap].imageUrl = RecordUrl(2)

\* A call of addToHistory that ran to its end: the list was written
AddToHistoryCompleted ==
    /\ clock' = clock + 1
    /\ loadHistory(storage') = history'

\* C5: after every completed addToHistory the history holds at most 50
\* entries, whatever list was loaded from storage at startup, a stored list
\* of more than 50 entries included
C5_CapIsStrict ==
    [][AddToHistoryCompleted => Len(history') <= HistoryCap]_vars

\* C6: in every reachable state stats.hotdogs is at most stats.total and
\* both are non-negative, where the stats are re-derived (calculateStats)
\* and where they are incremented (stats.total++, stats.hotdogs++)
C6_HotdogsAtMostTotal ==
    /\ stats.hotdogs <= stats.total
    /\ stats.hotdogs >= 0
    /\ stats.total >= 0

\* part_002 counted two verdicts, one of them positive
C6_Witness ==
    /\ rev = "p002"
    /\ stats.total = 2
    /\ stats.hotdogs = 1
    /\ Len(history) = 2

\* The number of entries of h marked as real hotdogs
Positives(h) == Cardinality({i \in 1..Len(h) : h[i].isRealHotdog = TRUE})

\* C7: in main.js, whenever no handler is running, stats.total is the
\* number of entries in history and stats.hotdogs is the number of those
\* whose isRealHotdog is true
C7_StatsMatchHistory ==
    rev = "main" =>
        /\ stats.total = Len(history)
        /\ stats.hotdogs = Positives(history)

\* C8: for every 2xx response {result: r, isRealHotdog: b}, when
\* classifyImage of main.js finishes the loading indicator is hidden, the
\* result section is visible and shows r, data-result is "hotdog" exactly
\* when b is true, and exactly one new entry with r and b is at the front of
\* history and persisted
C8_SuccessShownAndRecorded ==
    [][\A req \in requests, out \in Outcomes :
          (rev = "main" /\ out.kind = "ok" /\ classifyImage(req, out)) =>
              /\ dom'.loadingHidden
              /\ ~dom'.resultHidden
              /\ dom'.resultText = out.body.result
              /\ (dom'.dataResult = "hotdog") <=> out.body.isRealHotdog
              /\ Len(history') >= 1
              /\ history'[1].result = out.body.result
              /\ history'[1].isRealHotdog = out.body.isRealHotdog
              /\ Tail(history') = SubSeq(history, 1, Len(history') - 1)
              /\ loadHistory(storage') = history']_vars

\* The text the banner is to show for a non-2xx body, as C9 states it: the
\* message, then the serialised details when the body has details
BannerAsStated(body) ==
    <<body.error.v>>
    \o (IF "details" \in DOMAIN body
        THEN <<"\nDetails: ">> \o JSONstringify(body.details) ELSE <<>>)

\* C9 as stated: for every non-2xx response {error: m, details?: d},
\* classifyImage hides the loading indicator, shows the banner with m
\* followed by the serialised d when d is present, leaves the result section
\* hidden and leaves history, stats and the persisted history unchanged
C9_ErrorBodyShownAsStated ==
    [][\A req \in requests, out \in Outcomes :
          (rev = "main" /\ out.kind = "http_error" /\ classifyImage(req, out))
          =>  /\ dom'.loadingHidden
              /\ ~dom'.errorHidden
              /\ dom'.errorText = BannerAsStated(out.body)
              /\ dom'.resultHidden
              /\ history' = history
              /\ stats' = stats
              /\ storage' = storage]_vars

\* The text the banner shows for a non-2xx body: the message when it is not
\* empty, then the serialised details when they are truthy; a fixed message
\* when the body's message is empty
BannerShown(body) ==
    IF body.error.v = "" THEN <<"An unexpected error occurred">>
    ELSE <<body.error.v>>
         \o (IF "details" \in DOMAIN body /\ body.details \notin {JNum(0), JStr("")}
             THEN <<"\nDetails: ">> \o JSONstringify(body.details) ELSE <<>>)

\* C9: for every non-2xx response {error: m, details?: d}, classifyImage of
\* main.js and part_000 hides the loading indicator, shows the banner with m
\* when m is not empty (a fixed message when it is), followed by the
\* serialised d when d is truthy, does not change whether the result section
\* is hidden, and leaves history, stats and the persisted history unchanged
C9_ErrorBodyShown ==
    [][\A req \in requests, out \in Outcomes :
          (rev \in {"main", "p000"} /\ out.kind = "http_error"
           /\ classifyImage(req, out))
          =>  /\ dom'.loadingHidden
              /\ ~dom'.errorHidden
              /\ dom'.errorText = BannerShown(out.body)
              /\ dom'.resultHidden = dom.resultHidden
              /\ history' = history
              /\ stats' = stats
              /\ storage' = storage]_vars

\* main.js shows the server's message with its details
C9_Witness ==
    /\ rev = "main"
    /\ ~dom.errorHidden
    /\ dom.loadingHidden
    /\ dom.resultHidden
    /\ dom.errorText =
           <<"model unavailable", "\nDetails: ", "\"", "gpu", "\"">>
    /\ posts = 1
    /\ requests = {}

\* C10: immediately after resetStats, from any state, history is empty,
\* stats are {total: 0, hotdogs: 0} and the persisted history is the empty
\* list; a page reload at that point yields an empty history and zero stats
C10_ResetClearsAll ==
    [][/\ resetClick(TRUE) =>
             /\ history' = <<>>
             /\ stats' = [total |-> 0, hotdogs |-> 0]
             /\ "hotdogHistory" \in DOMAIN storage'
             /\ storage'.hotdogHistory = <<>>
       /\ (/\ reload
           /\ rev \in {"main", "p000"}
           /\ "hotdogHistory" \in DOMAIN storage
           /\ storage.hotdogHistory = <<>>) =>
             /\ history' = <<>>
             /\ stats' = [total |-> 0, hotdogs |-> 0]]_vars

\* A verdict was recorded and then the reset was confirmed: the empty list
\* is in storage
C10_Witness ==
    /\ rev \in {"main", "p000"}
    /\ clock = 2
    /\ history = <<>>
    /\ stats = [total |-> 0, hotdogs |-> 0]
    /\ "hotdogHistory" \in DOMAIN storage
    /\ storage.hotdogHistory = <<>>
    /\ budget = 0

C12_WriteThrough ==
    rev = "main" => loadHistory(storage) = history

\* The text inputs handleUrl of the revision accepts and posts at once
PostedAtOnce(r, url) ==
    \/ r = "main" /\ (BeginsWith(url, Http) \/ BeginsWith(url, Https))
    \/ r = "p000" /\ ValidText(url)

\* C13: no automatic retry.  The POSTs issued, together with the file reads
\* and URL pre-loads still to lead to one, never outnumber the user's
\* actions; a step issues at most one POST; a file that was read and a valid
\* URL input issue exactly one; and a POST is issued only by a submission or
\* by the completion of a read or pre-load a submission started, never by
\* the handling of a response or failure
C13_NoAutomaticRetry ==
    [][/\ posts' + Cardinality(reads') + Cardinality(urlJobs')
              <= MaxActions - budget'
       /\ Cardinality(Issued) <= 1
       /\ ~reload => posts' = posts + Cardinality(Issued)
       /\ \A rd \in reads : readerOnload(rd) => posts' = posts + 1
       /\ \A url \in UrlInputs :
             (handleUrl(url) /\ PostedAtOnce(rev, url)) => posts' = posts + 1
       /\ Issued # {} =>
             \/ budget' = budget - 1
             \/ reads' # reads /\ reads' \subseteq reads
             \/ urlJobs' # urlJobs /\ urlJobs' \subseteq urlJobs
       /\ \A req \in requests, out \in Outcomes :
             classifyImage(req, out) => (Issued = {} /\ posts' = posts)
      ]_vars

\* A submission of main.js failed at the fetch: one POST was issued for the
\* one user action, and none is in flight
C13_Witness ==
    /\ rev = "main"
    /\ posts = 1
    /\ requests = {}
    /\ reads = {}
    /\ ~dom.errorHidden
    /\ dom.errorText = <<"An unexpected error occurred">>
    /\ budget = MaxActions - 1

\* The text inputs handleUrl of the revision refuses
Refused(r, url) ==
    IF r = "p000" THEN ~ValidText(url)
    ELSE ~BeginsWith(url, Http) /\ ~BeginsWith(url, Https)

\* A step in which a submission fails: a file or text input is refused, a
\* file read or an image load fails, a response is not 2xx, the fetch is
\* rejected, the body does not parse, or recording the verdict throws
FailureDetected ==
    \/ \E file \in Files :
          handleFile(file) /\ ~BeginsWith(file.type, ImageSlash)
    \/ \E url \in UrlInputs : handleUrl(url) /\ Refused(rev, url)
    \/ \E rd \in reads : readerOnerror(rd)
    \/ \E job \in urlJobs : testImgOnerror(job)
    \/ previewOnerror
    \/ \E req \in requests, out \in Outcomes :
          classifyImage(req, out) /\ out.kind # "ok"
    \/ \E req \in requests, out \in Outcomes :
          /\ classifyImage(req, out)
          /\ out.kind = "ok"
          /\ loadHistory(storage') # history'

\* C14: every failure of a submission makes the error banner visible, with
\* a message, in the handler that detects it (main.js, part_000, part_002)
C14_EveryFailureReported ==
    [][(FailureDetected /\ rev \in Keeping) =>
           (~dom'.errorHidden /\ dom'.errorText # <<>>)]_vars

\* Recording the verdict threw in main.js: the banner is up, the entry is in
\* memory only
C14_Witness ==
    /\ rev = "main"
    /\ ~dom.errorHidden
    /\ dom.errorText = <<"An unexpected error occurred">>
    /\ ~dom.resultHidden
    /\ Len(history) = 1
    /\ loadHistory(storage) = <<>>

\* C15: whenever the error banner is visible it eventually becomes hidden
\* again without any user action, given that armed timers fire; and no timer
\* callback makes it visible
C15_BannerEventuallyHidden ==
    /\ [][timerFire => dom'.errorHidden]_vars
    /\ (~dom.errorHidden) ~> dom.errorHidden

\* One user action showed the banner and its timer has hidden it again
C15_Witness ==
    /\ dom.errorHidden
    /\ dom.errorText # <<>>
    /\ timers = 0
    /\ requests = {}
    /\ budget = MaxActions - 1

\* C16 as stated: at the moment a POST is issued the loading indicator is
\* visible and the result section and the error banner are both hidden, for
\* file and URL submissions and for any interleaving
C16_PostEntryAsStated ==
    [][(Issued # {} /\ rev = "main") =>
           /\ ~dom'.loadingHidden
           /\ dom'.resultHidden
           /\ dom'.errorHidden]_vars

\* C16: at the moment a POST is issued (main.js, part_000, part_002) the
\* loading indicator is visible and the result section is hidden, for any
\* interleaving; the error banner is hidden when handleUrl itself issues the
\* POST, and otherwise (the POST follows a file read or a URL pre-load) it is
\* as it was before that step: hidden unless an error was reported after the
\* submission reset the display
C16_PostEntry ==
    [][(Issued # {} /\ rev \in Keeping) =>
           /\ ~dom'.loadingHidden
           /\ dom'.resultHidden
           /\ IF budget' # budget THEN dom'.errorHidden
              ELSE dom'.errorHidden = dom.errorHidden]_vars

\* main.js posted a file while the banner of a later, refused submission was
\* still up
C16_Witness ==
    /\ rev = "main"
    /\ posts = 1
    /\ Cardinality(requests) = 1
    /\ previewLoad
    /\ ~dom.loadingHidden
    /\ dom.resultHidden
    /\ ~dom.errorHidden
    /\ dom.errorText = <<"Please upload an image file!">>

\* C17: in every reachable state the result section and the error banner
\* are not both visible
C17_ResultXorError ==
    rev = "main" => (dom.resultHidden \/ dom.errorHidden)

\* C18: every completion of a request hides the loading indicator, and
\* once no request and no URL pre-load is outstanding the loading indicator
\* is hidden
C18_LoadingHiddenOnCompletion ==
    [][/\ \A req \in requests, out \in Outcomes :
             classifyImage(req, out) => dom'.loadingHidden
       /\ (requests' = {} /\ urlJobs' = {}) => dom'.loadingHidden]_vars

\* Two requests were issued and both have completed: the result is shown
\* and the loading indicator is hidden
C18_Witness ==
    /\ posts = 2
    /\ requests = {}
    /\ reads = {}
    /\ urlJobs = {}
    /\ dom.loadingHidden
    /\ ~dom.resultHidden

\* C19: last write wins.  Whatever other requests are or were in flight,
\* after a 2xx response is handled (main.js, part_000) the result text and
\* styling on display are those of that response, and its verdict is at the
\* front of history with the verdicts recorded before it behind it; so after
\* two overlapping successes the display shows the response that arrived
\* last and history holds both, the later arrival first
C19_LastResponseWins ==
    [][\A req \in requests, out \in Outcomes :
          (rev \in {"main", "p000"} /\ out.kind = "ok"
           /\ classifyImage(req, out)) =>
              /\ ~dom'.resultHidden
              /\ dom'.resultText = out.body.result
              /\ (dom'.dataResult = "hotdog") <=> out.body.isRealHotdog
              /\ Len(history') >= 1
              /\ history'[1].result = out.body.result
              /\ history'[1].isRealHotdog = out.body.isRealHotdog
              /\ Tail(history') = SubSeq(history, 1, Len(history') - 1)]_vars

\* part_000: two URLs were submitted, UrlBare last (it is the preview), and
\* both were answered 2xx, UrlPath's response last: its verdict is on
\* display and at the front of history
C19_Witness ==
    /\ rev = "p000"
    /\ requests = {}
    /\ posts = 2
    /\ dom.previewSrc = UrlBare
    /\ Len(history) = 2
    /\ history[1].imageUrl = UrlPath
    /\ history[2].imageUrl = UrlBare
    /\ history[1].result # history[2].result
    /\ ~dom.resultHidden
    /\ dom.resultText = history[1].result

\* The image a request was issued for, as the preview showed it
SubmittedImage(req) ==
    IF req.body[1][1] = "file" THEN DataUrl(req.body[1][2])
    ELSE req.body[1][2]

\* C20: the imageUrl stored in a history entry is the image submitted in the
\* request whose response produced the entry's verdict (as typed, or as the
\* browser writes the same URL), also when a second submission has replaced
\* the preview before the response arrives
C20_EntryPairsOwnImage ==
    [][\A req \in requests, out \in Outcomes :
          (rev \in {"main", "p000"} /\ out.kind = "ok"
           /\ classifyImage(req, out)) =>
              /\ Len(history') >= 1
              /\ history'[1].result = out.body.result
              /\ history'[1].imageUrl \in
                     {SubmittedImage(req), SubmittedImage(req) \o <<"/">>}
      ]_vars

\* A step in which updatePreview(src) is called
UpdatePreviewCalled(src) ==
    \/ \E rd \in reads :
          rev \in Keeping /\ readerOnload(rd) /\ src = DataUrl(rd.file)
    \/ \E url \in UrlInputs :
          /\ handleUrl(url)
          /\ \/ rev = "main" /\ formatImageUrl(url) # NoUrl
                /\ src = formatImageUrl(url)
             \/ rev = "p000" /\ ValidText(url) /\ src = url
    \/ \E job \in urlJobs, converted \in BOOLEAN :
          urlConverted(job, converted) /\ src = job.url

PreviewSources ==
    {DataUrl(file) : file \in Files} \cup UrlInputs
        \cup {formatImageUrlP002(url) : url \in UrlInputs}

\* C21 as stated: updatePreview(src) puts src on display and leaves the
\* preview area visible at once, in every revision that has the function; a
\* failed load hides the area and shows the banner with the preview-failure
\* message
C21_PreviewShownAsStated ==
    [][/\ \A src \in PreviewSources :
             UpdatePreviewCalled(src) =>
                 dom'.previewSrc = src /\ ~dom'.previewHidden
       /\ previewOnerror =>
             /\ dom'.previewHidden
             /\ ~dom'.errorHidden
             /\ dom'.errorText = <<"Failed to load image preview">>]_vars

\* C21: updatePreview(src) replaces the displayed image; the preview area is
\* visible from that call on in main.js and part_000, and from the moment the
\* image has loaded in part_002; if the image fails to load, the preview area
\* is hidden and the error banner is shown with the preview-failure message
C21_PreviewShown ==
    [][/\ \A src \in PreviewSources :
             UpdatePreviewCalled(src) =>
                 /\ dom'.previewSrc = src
                 /\ previewLoad'
                 /\ rev \in {"main", "p000"} => ~dom'.previewHidden
       /\ (rev \in Keeping /\ previewOnload) => ~dom'.previewHidden
       /\ previewOnerror =>
             /\ dom'.previewHidden
             /\ ~dom'.errorHidden
             /\ dom'.errorText = <<"Failed to load image preview">>]_vars

\* A submitted image failed to load: the preview area is hidden and the
\* banner carries the preview-failure message
C21_Witness ==
    /\ rev \in Keeping
    /\ dom.previewSrc \in PreviewSources
    /\ ~previewLoad
    /\ dom.previewHidden
    /\ ~dom.errorHidden
    /\ dom.errorText = <<"Failed to load image preview">>

\* C22: after a 2xx response is handled (main.js, part_000) and its verdict
\* is on display, the description element is visible with exactly the text of
\* the response's `description` when it carries one, and hidden when it
\* carries none
C22_DescriptionIsOwn ==
    [][\A req \in requests, out \in Outcomes :
          (rev \in {"main", "p000"} /\ out.kind = "ok"
           /\ classifyImage(req, out) /\ ~dom'.resultHidden) =>
              IF "description" \in DOMAIN out.body
              THEN /\ ~dom'.explanationHidden
                   /\ dom'.explanationText = out.body.description
              ELSE dom'.explanationHidden]_vars

\* The same for part_000 alone
C22_DescriptionIsOwnP000 ==
    [][\A req \in requests, out \in Outcomes :
          (rev = "p000" /\ out.kind = "ok"
           /\ classifyImage(req, out) /\ ~dom'.resultHidden) =>
              IF "description" \in DOMAIN out.body
              THEN /\ ~dom'.explanationHidden
                   /\ dom'.explanationText = out.body.description
              ELSE dom'.explanationHidden]_vars

\* The half of it that part_000 keeps: a description that is carried is shown
C22_CarriedShownP000 ==
    [][\A req \in requests, out \in Outcomes :
          (rev = "p000" /\ out.kind = "ok"
           /\ classifyImage(req, out) /\ ~dom'.resultHidden
           /\ "description" \in DOMAIN out.body) =>
              /\ ~dom'.explanationHidden
              /\ dom'.explanationText = out.body.description]_vars

\* C23: a click on the reset control clears history and stats, in memory and
\* in storage, when the user confirms the prompt; when the user declines,
\* history, stats, localStorage and every displayed section stay as they were
C23_ResetGated ==
    [][\A confirmed \in BOOLEAN :
          resetClick(confirmed) =>
              IF confirmed
              THEN /\ history' = <<>>
                   /\ stats' = NoStats
                   /\ loadHistory(storage') = <<>>
                   /\ dom' = dom
              ELSE /\ history' = history
                   /\ stats' = stats
                   /\ storage' = storage
                   /\ dom' = dom]_vars

\* One image was classified and recorded and the reset prompt was declined:
\* both user actions are spent, the verdict is still on display and the
\* entry is still in history and in storage
C23_Witness ==
    /\ rev \in {"main", "p000"}
    /\ budget = 0
    /\ posts = 1
    /\ requests = {}
    /\ ~dom.resultHidden
    /\ Len(history) >= 1
    /\ loadHistory(storage) = history
    /\ stats.total = Len(history)

\* C24 as stated: when the fetch is rejected, classifyImage hides the loading
\* indicator, shows the banner with "An unexpected error occurred", the
\* result section is hidden afterwards and nothing is recorded
C24_RejectedFetchAsStated ==
    [][\A req \in requests, out \in Outcomes :
          (rev = "main" /\ out.kind = "network_error"
           /\ classifyImage(req, out))
          =>  /\ dom'.loadingHidden
              /\ ~dom'.errorHidden
              /\ dom'.errorText = <<"An unexpected error occurred">>
              /\ dom'.resultHidden
              /\ history' = history]_vars

\* C24: when the fetch is rejected, classifyImage hides the loading
\* indicator, shows the banner with "An unexpected error occurred", does not
\* change whether the result section is hidden (it is hidden when no other
\* request was answered since this one was posted) and records nothing:
\* history, stats and the persisted history are unchanged
C24_RejectedFetch ==
    [][\A req \in requests, out \in Outcomes :
          (rev \in Keeping /\ out.kind = "network_error"
           /\ classifyImage(req, out))
          =>  /\ dom'.loadingHidden
              /\ ~dom'.errorHidden
              /\ dom'.errorText = <<"An unexpected error occurred">>
              /\ dom'.resultHidden = dom.resultHidden
              /\ (posts = 1 => dom'.resultHidden)
              /\ history' = history
              /\ stats' = stats
              /\ storage' = storage]_vars

\* main.js on a fresh page: the only request failed; the generic message is
\* on display, loading and result are hidden and nothing was recorded
C24_Witness ==
    /\ rev = "main"
    /\ posts = 1
    /\ requests = {}
    /\ history = <<>>
    /\ storage = EmptyStorage
    /\ stats = NoStats
    /\ dom.loadingHidden
    /\ dom.resultHidden
    /\ ~dom.errorHidden
    /\ dom.errorText = <<"An unexpected error occurred">>

\* C25: in part_002, after a non-2xx response whose body carries a non-empty
\* `error: m`, the error banner is visible and its text begins with m
C25_ServerMessageShownP002 ==
    [][\A req \in requests, out \in Outcomes :
          (rev = "p002" /\ out.kind = "http_error"
           /\ Truthy(Field(out.body, "error"))
           /\ classifyImage(req, out))
          =>  /\ ~dom'.errorHidden
              /\ dom'.errorText # <<>>
              /\ dom'.errorText[1] = out.body.error.v]_vars

\* What part_002 does show for every non-2xx response: the fixed message
C25_GenericShownP002 ==
    [][\A req \in requests, out \in Outcomes :
          (rev = "p002" /\ out.kind = "http_error"
           /\ classifyImage(req, out))
          =>  /\ ~dom'.errorHidden
              /\ dom'.errorText = <<"An unexpected error occurred">>]_vars

C27_PositiveIffFlag ==
    [][\A req \in requests, out \in Outcomes :
          (rev \in {"p002", "p003"} /\ out.kind = "ok"
           /\ classifyImage(req, out) /\ ~dom'.resultHidden)
          =>  /\ (dom'.resultColor = "var(--success-color)")
                     <=> out.body.isRealHotdog
              /\ rev = "p002" =>
                     stats'.hotdogs = stats.hotdogs
                         + (IF out.body.isRealHotdog THEN 1 ELSE 0)]_vars

\* The same for the labels that do not contain "Hotdog" when negative
C27_PositiveIffFlagPlainLabels ==
    [][\A req \in requests, out \in Outcomes :
          (rev \in {"p002", "p003"} /\ out.kind = "ok"
           /\ out.body.result # LabelNot
           /\ classifyImage(req, out) /\ ~dom'.resultHidden)
          =>  /\ (dom'.resultColor = "var(--success-color)")
                     <=> out.body.isRealHotdog
              /\ rev = "p002" =>
                     stats'.hotdogs = stats.hotdogs
                         + (IF out.body.isRealHotdog THEN 1 ELSE 0)]_vars

\* C28: in part_002 a URL submission posts nothing by itself; when the test
\* image fails to load no POST is issued, the banner is shown and the loading
\* indicator is hidden; every POST for a URL is issued by a submission whose
\* test image has loaded, and its form has exactly one field: base64 with the
\* converted data when the secondary fetch and conversion succeeded, url with
\* the formatted URL when they failed
C28_PostAfterPreload ==
    [][rev = "p002" =>
          /\ \A url \in UrlInputs : handleUrl(url) => Issued = {}
          /\ \A job \in urlJobs :
                /\ testImgOnload(job) => Issued = {}
                /\ testImgOnerror(job) =>
                      /\ Issued = {}
                      /\ posts' = posts
                      /\ ~dom'.errorHidden
                      /\ dom'.errorText = <<"Unable to load image from URL">>
                      /\ dom'.loadingHidden
                /\ \A converted \in BOOLEAN :
                      urlConverted(job, converted) =>
                          \E req \in Issued :
                              /\ Issued = {req}
                              /\ req.body =
                                   IF converted
                                   THEN <<<<"base64", FetchedDataUrl>>>>
                                   ELSE <<<<"url", job.url>>>>
          /\ \A req \in Issued :
                req.body[1][1] # "file" =>
                    \E job \in urlJobs :
                        /\ job.stage = "convert"
                        /\ job \notin urlJobs'
                        /\ Len(req.body) = 1
                        /\ req.body[1][1] \in {"base64", "url"}]_vars

\* A URL was pre-loaded and converted: the request in flight carries base64
\* alone
C28_Witness ==
    /\ rev = "p002"
    /\ urlJobs = {}
    /\ \E req \in requests : req.body = <<<<"base64", FetchedDataUrl>>>>
    /\ ~dom.loadingHidden

\* A URL whose test image failed: nothing was posted, the banner is shown
C28_WitnessFailed ==
    /\ rev = "p002"
    /\ urlJobs = {}
    /\ posts = 0
    /\ budget = MaxActions - 1
    /\ dom.loadingHidden
    /\ ~dom.errorHidden
    /\ dom.errorText = <<"Unable to load image from URL">>

\* A step that starts a new submission (resetDisplay runs) or a new document
DisplayReset ==
    \/ \E file \in Files : handleFile(file)
    \/ \E url \in UrlInputs : handleUrl(url)
    \/ reload

\* C29: a visible banner is hidden only by a new submission's resetDisplay
\* or by the timer armed by the showError call that showed it.  The timers
\* fire in the order they were armed and the banner on display belongs to
\* the timer armed last, so the callback that hides it must be the only one
\* pending
C29_BannerKeptUntilOwnTimer ==
    [][(~dom.errorHidden /\ dom'.errorHidden) =>
          \/ DisplayReset
          \/ timerFire /\ timers = 1]_vars

\* What does hold: nothing but a submission, a reload or some timer callback
\* of showError hides a visible banner
C29_HiddenByResetOrSomeTimer ==
    [][(~dom.errorHidden /\ dom'.errorHidden) =>
          DisplayReset \/ timerFire]_vars

\* C30: in main.js and part_000 (and part_002), in every state between event
\* handlers, whatever the interleaving of submissions, file reads, responses
\* and timers, the loading indicator and the result section are not both
\* visible
C30_LoadingAndResultExclusive ==
    rev \in Keeping => (dom.loadingHidden \/ dom.resultHidden)

\* Two requests were posted and one of them was answered 2xx while the other
\* is still in flight: the result is visible and the loading indicator is
\* hidden
C30_Witness ==
    /\ rev \in {"main", "p000"}
    /\ posts = 2
    /\ Cardinality(requests) = 1
    /\ ~dom.resultHidden
    /\ dom.loadingHidden

\* The same statement for part_003, whose uploadAndClassify shows the
\* spinner without hiding the result
C30_LoadingAndResultExclusiveP003 ==
    rev = "p003" => (dom.loadingHidden \/ dom.resultHidden)

\* C31: in main.js, in every state between event handlers in which at least
\* one POST to /classify is in flight, the loading indicator is visible
C31_LoadingWhileInFlight ==
    (rev = "main" /\ requests # {}) => ~dom.loadingHidden

\* The same while the submission that posted the request is the only user
\* action so far
C31_LoadingWhileInFlightAlone ==
    (rev = "main" /\ requests # {} /\ budget = MaxActions - 1) =>
        ~dom.loadingHidden

\* C32: in main.js, part_000 and part_002, submitting the URL form with an
\* empty or white-space-only input issues no POST, shows no banner and
\* leaves every displayed section, history, stats and storage as they were
C32_BlankSubmitNoOp ==
    [][\A text \in UrlTexts :
          (rev \in Keeping /\ urlFormSubmit(text)
           /\ \A i \in DOMAIN text : text[i] \in WhiteSpace)
          =>  /\ Issued = {}
              /\ posts' = posts
              /\ urlJobs' = urlJobs
              /\ dom' = dom
              /\ timers' = timers
              /\ history' = history
              /\ stats' = stats
              /\ storage' = storage]_vars

\* part_002: of the two user actions one classified a file, and no other
\* left a trace: the verdict is on display, no banner was ever shown
C32_Witness ==
    /\ rev = "p002"
    /\ budget = 0
    /\ posts = 1
    /\ requests = {}
    /\ reads = {}
    /\ urlJobs = {}
    /\ ~dom.resultHidden
    /\ dom.errorText = <<>>
    /\ Len(history) = 1

====
